---------------------------- MODULE Spec2Model ----------------------------
(***************************************************************************)
(* State-machine model of the news_scraper extraction pipeline:            *)
(*   - news_scraper/request.py        Request (fetch with bounded retries)  *)
(*   - news_scraper/nosdiario         NosDiario.parse (XML normalizer)      *)
(*   - news_scraper/prazapublica      Praza.parse (HTML normalizer)         *)
(* Each component has its own specification (SpecRequest, SpecNosDiario,   *)
(* SpecPraza); the variables of the other components stay at their idle    *)
(* values.                                                                 *)
(***************************************************************************)
EXTENDS Integers, Sequences, FiniteSets, TLC

VARIABLES
    \* ---- Request (request.py) ----
    max_retries,      \* self.max_retries
    op,               \* which public method is running: "fetch" / "fetch_response"
    rpc,              \* position inside the call
    attempt,          \* loop variable of `for attempt in range(1, max_retries + 1)`
    last_exc,         \* local last_exc of _request_with_retries
    response,         \* the Response object returned by the retry loop
    events,           \* sequence of "get" / "sleep": the calls made so far
    answers,          \* what the remote end did on each GET, in order
    result,           \* how the public method ended
    \* ---- NosDiario / Praza (parse) ----
    articles_ok,      \* self.articles_ok
    articles_error,   \* self.articles_error
    articles_exists,  \* self.articles_exists
    ppc,              \* position of parse(): "loop", "done", "raised"
    visited,          \* number of files the for loop has taken so far
    nfiles,           \* length of the sequence of files handed to parse()
    written,          \* number of _write_json calls so far
    cur,              \* the file the last loop iteration worked on
    doc,              \* the document passed to the last _write_json (or NoDoc)
    escaped,          \* the exception that left parse() (or "None")
    nzero,            \* number of zero-byte files the loop has taken so far
    \* ---- Praza.download_from_category ----
    dpc,              \* position of download_from_category
    page,             \* local `page`
    last_page,        \* local `last_page`
    held,             \* what local `response` holds: the listing page it came from
    nav,              \* numeric pagination links found on listing page 1
    requested,        \* page numbers of the listing fetches made, in order
    processed,        \* listing pages handed to _get_articles_in_page, in order
    entries_left,     \* article entries the loop of _get_articles_in_page still has
    art,              \* the article entry the last loop iteration worked on
    seen,             \* what _download_article found for it (disk, fetcher)
    out,              \* what _download_article returned for it
    fetches,          \* number of article fetches made
    writes,           \* number of article files written
    dexc,             \* the exception that left download_from_category
    \* ---- NosDiario._get_related ----
    gpc,              \* "idle" before the call, "done" after it
    body,             \* the body markup passed in
    related_uris,     \* the list returned
    body_html,        \* the markup returned
    \* ---- clean_html_body ----
    cpc,              \* position inside clean_html_body
    html_content,     \* the argument
    cleaned,          \* clean_chars(html_content)
    html_cleaned,     \* the local holding the extracted text
    calls,            \* the newspaper calls made so far, with their outcome
    cresult,          \* what clean_html_body returned or raised
    \* ---- two runs of NosDiario.parse on one file ----
    run,              \* 1 in the first process, 2 in the second
    first_file,       \* the file the first run parsed
    first_doc         \* the document the first run wrote

vars == <<max_retries, op, rpc, attempt, last_exc, response, events, answers,
          result, articles_ok, articles_error, articles_exists, ppc, visited,
          nfiles, written, cur, doc, escaped, nzero, dpc, page, last_page,
          held, nav, requested, processed, entries_left, art, seen, out,
          fetches, writes, dexc, gpc, body, related_uris, body_html,
          cpc, html_content, cleaned, html_cleaned, calls, cresult,
          run, first_file, first_doc>>

requestVars == <<max_retries, op, rpc, attempt, last_exc, response, events,
                 answers, result>>

parseVars == <<articles_ok, articles_error, articles_exists, ppc, visited,
               nfiles, written, cur, doc, escaped, nzero>>

parseOnlyVars == <<ppc, visited, nfiles, written, cur, doc, escaped, nzero>>

downloadVars == <<dpc, page, last_page, held, nav, requested, processed,
                  entries_left, art, seen, out, fetches, writes, dexc>>

\* the variables of the components added after Request and parse
relatedVars == <<gpc, body, related_uris, body_html>>

cleanVars == <<cpc, html_content, cleaned, html_cleaned, calls, cresult>>

rerunVars == <<run, first_file, first_doc>>

restVars == <<downloadVars, relatedVars, cleanVars, rerunVars>>

None == "None"

\* `response` not yet bound / no entry taken yet
Unbound == [page |-> 0, entries |-> 0]
NoEntry == [kind |-> "none"]
NoSeen == [kind |-> "none"]
NoOut == [kind |-> "none"]

IdleDownload ==
    /\ dpc = "idle" /\ page = 0 /\ last_page = 0 /\ held = Unbound
    /\ nav = {} /\ requested = <<>> /\ processed = <<>> /\ entries_left = 0
    /\ art = NoEntry /\ seen = NoSeen /\ out = NoOut
    /\ fetches = 0 /\ writes = 0 /\ dexc = None

\* no markup handed to _get_related
NoMarkup == [kind |-> "none"]

IdleRelated ==
    /\ gpc = "idle" /\ body = NoMarkup /\ related_uris = <<>>
    /\ body_html = NoMarkup

\* clean_html_body not called
NoContent == [type |-> "none", chars |-> <<>>]
NoCleanResult == [kind |-> "none", value |-> ""]

IdleClean ==
    /\ cpc = "idle" /\ html_content = NoContent /\ cleaned = <<>>
    /\ html_cleaned = "" /\ calls = <<>> /\ cresult = NoCleanResult

\* no earlier run
IdleRerun ==
    /\ run = 1 /\ first_file = [kind |-> "none"]
    /\ first_doc = [kind |-> "none"]

IdleRest == IdleDownload /\ IdleRelated /\ IdleClean /\ IdleRerun

(***************************************************************************)
(*                         Request  (request.py)                           *)
(***************************************************************************)

\* Request.__init__ default max_retries=3
DefaultMaxRetries == 3

\* largest max_retries a Request is constructed with in the model
MaxRetriesBound == 4

\* (mutant) 429 Too Many Requests left out of the retryable set
RetryStatusCodes_No429 == {500, 502, 503, 504}

\* self._retry_status_codes
RetryStatusCodes == {500, 502, 503, 504, 429}

\* status codes the remote end answers with in the model: the retryable ones,
\* two successes, a redirect-class code, a 4xx and a non-retryable 5xx
Statuses == {500, 502, 503, 504, 429, 200, 204, 304, 404, 501}

\* exceptions requests.get raises in the model, with their base classes
\* (requests.exceptions: ConnectTimeout derives from ConnectionError and Timeout)
ExcClasses == {"ReadTimeout", "ConnectTimeout", "ConnectionError", "TooManyRedirects"}

Bases(e) ==
    CASE e = "ReadTimeout"      -> {"ReadTimeout", "Timeout", "RequestException"}
      [] e = "ConnectTimeout"   -> {"ConnectTimeout", "ConnectionError", "Timeout",
                                    "RequestException"}
      [] e = "ConnectionError"  -> {"ConnectionError", "RequestException"}
      [] e = "TooManyRedirects" -> {"TooManyRedirects", "RequestException"}
      [] OTHER                  -> {}

IsInstance(e, cls) == cls \in Bases(e)

\* what one requests.get call can do: answer with a status or raise
Outcomes ==
    [kind : {"response"}, status : Statuses, exc : {None}]
      \cup [kind : {"exception"}, status : {0}, exc : ExcClasses]

NoResponse == [status |-> 0, from |-> 0]
NoResult ==
    [kind |-> "none", status |-> 0, body |-> 0, msg |-> None, detail |-> None,
     cause |-> None]

\* (mutant) the attempt bound inclusive: a retry is scheduled after the last
\* allowed attempt
ShouldRetryStatus_Inclusive(status, n) ==
    status \in RetryStatusCodes /\ n <= max_retries

\* (mutant) the attempt bound off by one: the last retry is never made
ShouldRetryStatus_OffByOne(status, n) ==
    status \in RetryStatusCodes /\ n < max_retries - 1

\* `status in self._retry_status_codes and attempt < self.max_retries`
ShouldRetryStatus(status, n) == status \in RetryStatusCodes /\ n < max_retries

\* (mutant) only server errors are treated as HTTP errors
IsHTTPError_ServerOnly(status) == status >= 500 /\ status < 600

\* Response.raise_for_status raises HTTPError for 4xx and 5xx
IsHTTPError(status) == status >= 400 /\ status < 600

\* the message chosen by the isinstance chain after the loop
ClassifiedMessage(e) ==
    IF IsInstance(e, "Timeout") THEN "Timeout occurred"
    ELSE IF IsInstance(e, "ConnectionError") THEN "Connection error occurred"
    ELSE IF e # None THEN "Error fetching URL: <last_exc>"
    ELSE "Unknown error fetching URL"

\* the only text of last_exc that reaches the message: the f-string of the
\* generic branch formats it; the two fixed messages carry nothing of it
MessageDetail(e) ==
    IF IsInstance(e, "Timeout") \/ IsInstance(e, "ConnectionError") THEN None
    ELSE e

\* a `raise RequestError(...)` statement placed after the for loop: it runs
\* outside any except block and has no `from`, so neither __cause__ nor
\* __context__ of the new exception is set
RaisedAfterLoop(e) ==
    [kind |-> "RequestError", status |-> 0, body |-> 0,
     msg |-> ClassifiedMessage(e), detail |-> MessageDetail(e), cause |-> None]

\* `raise RequestError(f"HTTP {status} error in {url}") from e`
RaisedHTTP(status) ==
    [kind |-> "RequestError", status |-> status, body |-> 0,
     msg |-> "HTTP <status> error in <url>", detail |-> None,
     cause |-> "HTTPError"]

\* fetch() or fetch_response() is called: _request_with_retries starts
Call ==
    /\ rpc = "idle"
    /\ \E m \in {"fetch", "fetch_response"} : op' = m
    /\ attempt' = 1
    /\ last_exc' = None
    /\ rpc' = "loop"
    /\ UNCHANGED <<max_retries, response, events, answers, result>>

\* one iteration of the for loop: the GET, then retry / return / except
Attempt ==
    /\ rpc = "loop"
    /\ attempt <= max_retries
    /\ \E o \in Outcomes :
        /\ answers' = Append(answers, o)
        /\ IF o.kind = "response"
           THEN IF ShouldRetryStatus(o.status, attempt)
                THEN /\ events' = events \o <<"get", "sleep">>
                     /\ attempt' = attempt + 1
                     /\ UNCHANGED <<rpc, response, last_exc>>
                ELSE /\ events' = Append(events, "get")
                     /\ response' = [status |-> o.status, from |-> attempt]
                     /\ rpc' = "returned"
                     /\ UNCHANGED <<attempt, last_exc>>
           ELSE /\ last_exc' = o.exc
                /\ IF attempt < max_retries
                   THEN /\ events' = events \o <<"get", "sleep">>
                        /\ attempt' = attempt + 1
                        /\ UNCHANGED <<rpc, response>>
                   ELSE /\ events' = Append(events, "get")
                        /\ rpc' = "after_loop"
                        /\ UNCHANGED <<attempt, response>>
    /\ UNCHANGED <<max_retries, op, result>>

\* the range is exhausted without a return or a break
LoopExhausted ==
    /\ rpc = "loop"
    /\ attempt > max_retries
    /\ rpc' = "after_loop"
    /\ UNCHANGED <<max_retries, op, attempt, last_exc, response, events,
                   answers, result>>

\* the raise statements after the loop; the error leaves fetch / fetch_response
RaiseAfterLoop ==
    /\ rpc = "after_loop"
    /\ result' = RaisedAfterLoop(last_exc)
    /\ rpc' = "done"
    /\ UNCHANGED <<max_retries, op, attempt, last_exc, response, events, answers>>

\* fetch_response: log and return the response
FetchResponseReturn ==
    /\ rpc = "returned"
    /\ op = "fetch_response"
    /\ result' = [kind |-> "response", status |-> response.status,
                  body |-> response.from, msg |-> None, detail |-> None,
                  cause |-> None]
    /\ rpc' = "done"
    /\ UNCHANGED <<max_retries, op, attempt, last_exc, response, events, answers>>

\* fetch: raise_for_status, then return response.text or raise RequestError
FetchReturn ==
    /\ rpc = "returned"
    /\ op = "fetch"
    /\ result' = IF IsHTTPError(response.status)
                 THEN RaisedHTTP(response.status)
                 ELSE [kind |-> "text", status |-> response.status,
                       body |-> response.from, msg |-> None, detail |-> None,
                  cause |-> None]
    /\ rpc' = "done"
    /\ UNCHANGED <<max_retries, op, attempt, last_exc, response, events, answers>>

\* no file taken yet / no document written by the current iteration
NoFile == [kind |-> "none"]
NoDoc == [kind |-> "none"]

IdleParse ==
    /\ articles_ok = 0 /\ articles_error = 0 /\ articles_exists = 0
    /\ ppc = "idle" /\ visited = 0 /\ nfiles = 0 /\ written = 0
    /\ cur = NoFile /\ doc = NoDoc /\ escaped = None /\ nzero = 0

InitRequest ==
    /\ max_retries \in 0..MaxRetriesBound
    /\ op = None
    /\ rpc = "idle"
    /\ attempt = 0
    /\ last_exc = None
    /\ response = NoResponse
    /\ events = <<>>
    /\ answers = <<>>
    /\ result = NoResult
    /\ IdleParse
    /\ IdleRest

NextRequest ==
    \/ Call /\ UNCHANGED <<parseVars, restVars>>
    \/ Attempt /\ UNCHANGED <<parseVars, restVars>>
    \/ LoopExhausted /\ UNCHANGED <<parseVars, restVars>>
    \/ RaiseAfterLoop /\ UNCHANGED <<parseVars, restVars>>
    \/ FetchResponseReturn /\ UNCHANGED <<parseVars, restVars>>
    \/ FetchReturn /\ UNCHANGED <<parseVars, restVars>>

SpecRequest == InitRequest /\ [][NextRequest]_vars

(***************************************************************************)
(*                 NosDiario.parse  (nosdiario/nosdiario.py)               *)
(***************************************************************************)

\* longest sequence of files handed to parse() in the model
NumFiles == 2

\* Value attributes of the Tesauro Property elements
Categories == {"galiza", "cultura"}

\* The XML files parse() can meet.  A zero-byte file and a file that is not
\* well-formed carry no tree; a well-formed file is described by what the
\* element paths read by the normalizer find in it:
\*   news_item_id  .//NewsIdentifier/NewsItemId          (None: no element)
\*   date_id       .//NewsIdentifier/DateId              (None: no element)
\*   tesauro       Values of Property[FormalName=Tesauro]
\*   abstract      .../abstract/p    None: no element or empty text,
\*                                   "blank": text that cleans to nothing,
\*                                   "text": text that survives cleaning
\*   body_content  .../body.content  None: no element, "blank": only
\*                                   whitespace, "unclean": markup from which
\*                                   clean_html_body extracts nothing,
\*                                   "text": markup with extractable text
\*   keywords      keyword elements  "with_key": all carry key=..., "no_key":
\*                                   one lacks the key attribute
\*   photos        .photos component "ok": none, or .file/.text parts complete,
\*                                   "no_href": a .file part without
\*                                   ContentItem[@Href], "no_caption": a .text
\*                                   part without body.content/p
EmptyFiles == {[kind |-> "zero_bytes"]}

MalformedFiles == {[kind |-> "malformed"]}

WellFormedFiles ==
    [kind : {"xml"},
     news_item_id : {None, "id1"},
     date_id : {None, "20240101T000000"},
     tesauro : SUBSET Categories,
     abstract : {None, "blank", "text"},
     body_content : {None, "blank", "unclean", "text"},
     keywords : {"with_key", "no_key"},
     photos : {"ok", "no_href", "no_caption"}]

XmlFiles == EmptyFiles \cup MalformedFiles \cup WellFormedFiles

\* `xml_path.stat().st_size == 0`
IsEmptyFile(f) == f.kind = "zero_bytes"

\* ET.parse raises ET.ParseError (zero bytes are no XML document either)
RaisesParseError(f) == f.kind \in {"zero_bytes", "malformed"}

\* _get_metadata: findtext yields None for a missing element
GetMetadata(f) == [news_item_id |-> f.news_item_id]

\* the orders in which list(set) can enumerate a set of strings
RECURSIVE Orders(_)
Orders(S) ==
    IF S = {} THEN {<<>>}
    ELSE UNION {{<<x>> \o rest : rest \in Orders(S \ {x})} : x \in S}

\* _get_abstract: "" unless the cleaned text is non-empty
GetAbstract(f) == IF f.abstract = "text" THEN "text" ELSE ""

\* _get_body: clean_html_body's RuntimeError is caught and leaves ""
GetBody(f) == IF f.body_content = "text" THEN "text" ELSE ""

Falsy == [status |-> "falsy", categories |-> <<>>, abstract |-> "", body |-> ""]
Raised == [status |-> "AttributeError", categories |-> <<>>, abstract |-> "",
           body |-> ""]

\* _parse_article, with `categories` the list _get_categories returned
ParseArticle(f, categories) ==
    IF Len(categories) < 1 THEN Falsy                       \* return {}
    ELSE IF f.body_content = None THEN Raised               \* None.strip()
    ELSE IF f.body_content = "blank" THEN Falsy             \* return None
    ELSE IF GetAbstract(f) = "" /\ GetBody(f) = "" THEN Falsy  \* return None
    ELSE IF f.keywords = "no_key" THEN Raised               \* None.split(",")
    ELSE IF f.photos # "ok" THEN Raised                     \* None.get / None.strip
    ELSE [status |-> "data", categories |-> categories,
          abstract |-> GetAbstract(f), body |-> GetBody(f)]

\* _get_url: None.split("+") when there is no DateId element
GetUrlRaises(f) == f.date_id = None

\* _get_url: base_url/articulo/<category>/-/<date_id><uid>.html
GetUrl(f, category) ==
    [category |-> category, date_id |-> f.date_id, uid |-> f.news_item_id]

\* (mutant) an empty file counted as an error
SkipEmptyFile_Counted ==
    /\ articles_error' = articles_error + 1
    /\ doc' = NoDoc
    /\ UNCHANGED <<articles_ok, articles_exists, written, ppc, escaped>>

\* `if xml_path.stat().st_size == 0: ... continue`
SkipEmptyFile ==
    /\ doc' = NoDoc
    /\ UNCHANGED <<articles_ok, articles_error, articles_exists, written, ppc,
                   escaped>>

\* `except ET.ParseError as e: logger.error(...); continue`
SkipSyntaxError ==
    /\ doc' = NoDoc
    /\ UNCHANGED <<articles_ok, articles_error, articles_exists, written, ppc,
                   escaped>>

\* (mutant) the failed article logged but not counted
CountError_NotCounted ==
    /\ doc' = NoDoc
    /\ UNCHANGED <<articles_ok, articles_error, articles_exists, written, ppc,
                   escaped>>

\* `if not news: ... self.articles_error += 1; continue`
CountError ==
    /\ articles_error' = articles_error + 1
    /\ doc' = NoDoc
    /\ UNCHANGED <<articles_ok, articles_exists, written, ppc, escaped>>

\* an exception nothing in parse() catches: it leaves the loop and parse()
Escape(exc) ==
    /\ ppc' = "raised"
    /\ escaped' = exc
    /\ doc' = NoDoc
    /\ UNCHANGED <<articles_ok, articles_error, articles_exists, written>>

\* doc.update(...); self._write_json(doc, xml_path); self.articles_ok += 1
WriteDocument(f, news) ==
    /\ doc' = [kind |-> "document",
               metadata |-> [news_item_id |-> GetMetadata(f).news_item_id,
                             url |-> GetUrl(f, news.categories[1])],
               news |-> news]
    /\ written' = written + 1
    /\ articles_ok' = articles_ok + 1
    /\ UNCHANGED <<articles_error, articles_exists, ppc, escaped>>

\* parse(xml_files) is called with a sequence of n files
StartParse ==
    /\ ppc = "idle"
    /\ \E n \in 0..NumFiles : nfiles' = n
    /\ ppc' = "loop"
    /\ UNCHANGED <<articles_ok, articles_error, articles_exists, visited,
                   written, cur, doc, escaped, nzero>>

\* one iteration of `for xml_path in xml_files` on the next file f
ParseFile ==
    /\ ppc = "loop"
    /\ visited < nfiles
    /\ \E f \in XmlFiles :
        /\ cur' = f
        /\ visited' = visited + 1
        /\ nzero' = (IF f.kind = "zero_bytes" THEN nzero + 1 ELSE nzero)
        /\ IF IsEmptyFile(f) THEN SkipEmptyFile
           ELSE IF RaisesParseError(f) THEN SkipSyntaxError
           ELSE \E categories \in Orders(f.tesauro) :
                  LET news == ParseArticle(f, categories) IN
                  IF news.status = "AttributeError" THEN Escape("AttributeError")
                  ELSE IF news.status = "falsy" THEN CountError
                  ELSE IF GetUrlRaises(f) THEN Escape("AttributeError")
                  ELSE WriteDocument(f, news)
    /\ UNCHANGED nfiles

\* the for loop runs out of files and parse() returns
FinishParse ==
    /\ ppc = "loop"
    /\ visited = nfiles
    /\ ppc' = "done"
    /\ UNCHANGED <<articles_ok, articles_error, articles_exists, visited,
                   nfiles, written, cur, doc, escaped, nzero>>

IdleRequest ==
    /\ max_retries = DefaultMaxRetries
    /\ op = None /\ rpc = "idle" /\ attempt = 0 /\ last_exc = None
    /\ response = NoResponse /\ events = <<>> /\ answers = <<>>
    /\ result = NoResult

\* NosDiario.__init__
InitNosDiario ==
    /\ articles_ok = 0
    /\ articles_error = 0
    /\ articles_exists = 0
    /\ ppc = "idle"
    /\ visited = 0
    /\ nfiles = 0
    /\ written = 0
    /\ cur = NoFile
    /\ doc = NoDoc
    /\ escaped = None
    /\ nzero = 0
    /\ IdleRequest
    /\ IdleRest

NextNosDiario ==
    \/ StartParse /\ UNCHANGED <<requestVars, restVars>>
    \/ ParseFile /\ UNCHANGED <<requestVars, restVars>>
    \/ FinishParse /\ UNCHANGED <<requestVars, restVars>>

SpecNosDiario == InitNosDiario /\ [][NextNosDiario]_vars


(***************************************************************************)
(*                   Praza.parse  (prazapublica/praza.py)                  *)
(***************************************************************************)

\* The HTML files Praza.parse can meet.  "unreadable": _get_content raises;
\* "unparsable": lxml's fromstring raises (for instance an empty document);
\* a parsed page is described by what the selectors find in it:
\*   og_url        meta[property=og:url]                 (None: no tag)
\*   title         og:title / meta name=title            (None: neither)
\*   abstract      og:description / meta name=description (None: neither)
\*   article_ul    //article[@id='article']//ul matches something
\*   related       anchors of the related list: "ok" (none, or complete),
\*                 "no_href" (an anchor without href), "no_text" (an anchor
\*                 without text)
\*   article_body  an element whose class contains 'article-body' exists
\*   bodytext      clean_html_body on the page: "text", or "fails"
\*                 (RuntimeError)
\*   images        number of figure.at-image elements with a link
UnreadableFiles == {[kind |-> "unreadable"]}

UnparsableFiles == {[kind |-> "unparsable"]}

HtmlPages ==
    [kind : {"html"},
     og_url : {None, "url"},
     title : {None, "title"},
     abstract : {None, "abstract"},
     article_ul : BOOLEAN,
     related : {"ok", "no_href", "no_text"},
     article_body : BOOLEAN,
     bodytext : {"text", "fails"},
     images : {0, 1}]

HtmlFiles == UnreadableFiles \cup UnparsableFiles \cup HtmlPages

\* Praza._get_metadata: news_item_id and url only when og:url is there
PrazaGetMetadata(f) ==
    IF f.og_url # None
    THEN [keys |-> {"news_item_id", "url"}, news_item_id |-> <<"md5", f.og_url>>]
    ELSE [keys |-> {}, news_item_id |-> <<>>]

PrazaFalsy == [status |-> "falsy", headline |-> "", abstract |-> None,
               images |-> 0]

PrazaRaised(exc) == [status |-> exc, headline |-> "", abstract |-> None,
                     images |-> 0]

\* Praza._parse_article
PrazaParseArticle(f) ==
    IF ~f.article_ul THEN PrazaRaised("AttributeError")     \* [].xpath(".//a")
    ELSE IF f.related = "no_href" THEN PrazaRaised("AttributeError")  \* None.strip()
    ELSE IF f.related = "no_text" THEN PrazaRaised("IndexError")      \* [][0]
    ELSE IF ~f.article_body THEN PrazaFalsy                 \* body_html is None
    ELSE IF f.bodytext = "fails" THEN PrazaFalsy            \* body is None
    ELSE [status |-> "data",
          headline |-> (IF f.title = None THEN "" ELSE f.title),
          abstract |-> f.abstract,
          images |-> f.images]

\* the three `self.articles_error += 1; continue` branches of Praza.parse
PrazaCountError ==
    /\ articles_error' = articles_error + 1
    /\ doc' = NoDoc
    /\ UNCHANGED <<articles_ok, articles_exists, written, ppc, escaped>>

\* doc.update(...); self._write_json(doc, html_file); self.articles_ok += 1
PrazaWriteDocument(f, news) ==
    /\ doc' = [kind |-> "document", metadata |-> PrazaGetMetadata(f),
               news |-> news]
    /\ written' = written + 1
    /\ articles_ok' = articles_ok + 1
    /\ UNCHANGED <<articles_error, articles_exists, ppc, escaped>>

\* Praza.parse(html_files) is called with a sequence of n files
PrazaStartParse ==
    /\ ppc = "idle"
    /\ \E n \in 0..NumFiles : nfiles' = n
    /\ ppc' = "loop"
    /\ UNCHANGED <<articles_ok, articles_error, articles_exists, visited,
                   written, cur, doc, escaped, nzero>>

\* one iteration of `for html_file in html_files` on the next file f
PrazaParseFile ==
    /\ ppc = "loop"
    /\ visited < nfiles
    /\ \E f \in HtmlFiles :
        /\ cur' = f
        /\ visited' = visited + 1
        /\ nzero' = nzero
        /\ IF f.kind = "unreadable" THEN PrazaCountError
           ELSE IF f.kind = "unparsable" THEN PrazaCountError
           ELSE LET news == PrazaParseArticle(f) IN
                IF news.status \in {"AttributeError", "IndexError"}
                THEN Escape(news.status)
                ELSE IF news.status = "falsy" THEN PrazaCountError
                ELSE PrazaWriteDocument(f, news)
    /\ UNCHANGED nfiles

\* the for loop runs out of files and parse() returns
PrazaFinishParse ==
    /\ ppc = "loop"
    /\ visited = nfiles
    /\ ppc' = "done"
    /\ UNCHANGED <<articles_ok, articles_error, articles_exists, visited,
                   nfiles, written, cur, doc, escaped, nzero>>

\* Praza.__init__
InitPraza ==
    /\ articles_ok = 0
    /\ articles_error = 0
    /\ articles_exists = 0
    /\ ppc = "idle"
    /\ visited = 0
    /\ nfiles = 0
    /\ written = 0
    /\ cur = NoFile
    /\ doc = NoDoc
    /\ escaped = None
    /\ nzero = 0
    /\ IdleRequest
    /\ IdleRest

NextPraza ==
    \/ PrazaStartParse /\ UNCHANGED <<requestVars, restVars>>
    \/ PrazaParseFile /\ UNCHANGED <<requestVars, restVars>>
    \/ PrazaFinishParse /\ UNCHANGED <<requestVars, restVars>>

SpecPraza == InitPraza /\ [][NextPraza]_vars


(***************************************************************************)
(*          Praza.download_from_category  (prazapublica/praza.py)          *)
(***************************************************************************)

\* largest page number a pagination link carries in the model
MaxPages == 2

\* largest number of article entries on one listing page in the model
MaxEntries == 2

\* An article entry of a listing page: whether it has a headline link
\* (h2.headline/a/@href) and what its time.date/@datetime holds (None: no
\* such element, so `date` stays the empty list)
Entries == [kind : {"entry"}, href : BOOLEAN, date : {None, "2024-01-02T03:04:05"}]

\* What the disk and the fetcher answer while one article is downloaded:
\*   mkdir   out_dir.mkdir succeeds
\*   exists  out_path.exists()
\*   fetch   self.r.fetch: "text", "empty" (an empty body) or "RequestError"
\*   write   opening and writing out_path succeeds
Environments ==
    [mkdir : BOOLEAN, exists : BOOLEAN,
     fetch : {"text", "empty", "RequestError"}, write : BOOLEAN]

Returned(res, msg, fetched, wrote) ==
    [kind |-> "returned", exc |-> None, result |-> res, msg |-> msg,
     fetched |-> fetched, wrote |-> wrote]

RaisedIn(exc) ==
    [kind |-> "raised", exc |-> exc, result |-> FALSE, msg |-> None,
     fetched |-> FALSE, wrote |-> FALSE]

\* (mutant) the article is fetched before the existence check
DownloadArticle_FetchFirst(e, env) ==
    IF e.date = None THEN RaisedIn("AttributeError")
    ELSE IF ~env.mkdir THEN Returned(FALSE, "mkdir", FALSE, FALSE)
    ELSE IF env.fetch = "RequestError" THEN Returned(FALSE, "RequestError", TRUE, FALSE)
    ELSE IF env.exists THEN Returned(TRUE, "exists", TRUE, FALSE)
    ELSE IF env.fetch = "empty" THEN Returned(FALSE, "empty_content", TRUE, FALSE)
    ELSE IF ~env.write THEN Returned(FALSE, "write", TRUE, FALSE)
    ELSE Returned(TRUE, "ok", TRUE, TRUE)

\* _download_article(url, isodate)
DownloadArticle(e, env) ==
    IF e.date = None THEN RaisedIn("AttributeError")        \* [].split('.')
    ELSE IF ~env.mkdir THEN Returned(FALSE, "mkdir", FALSE, FALSE)
    ELSE IF env.exists THEN Returned(TRUE, "exists", FALSE, FALSE)
    ELSE IF env.fetch = "RequestError" THEN Returned(FALSE, "RequestError", TRUE, FALSE)
    ELSE IF env.fetch = "empty" THEN Returned(FALSE, "empty_content", TRUE, FALSE)
    ELSE IF ~env.write THEN Returned(FALSE, "write", TRUE, FALSE)
    ELSE Returned(TRUE, "ok", TRUE, TRUE)

\* what of the environment one download comes to consult, in the order the
\* code asks: the directory, the file, the fetcher, the write; what is never
\* asked is left at FALSE / "unasked", so that environments differing only in
\* answers nobody asked for are one and the same
Consulted(e, env) ==
    LET dir == e.date # None
        file == dir /\ env.mkdir
        net == file /\ ~env.exists
        disk == net /\ env.fetch = "text"
    IN  [kind |-> "seen",
         mkdir |-> IF dir THEN env.mkdir ELSE FALSE,
         exists |-> IF file THEN env.exists ELSE FALSE,
         fetch |-> IF net THEN env.fetch ELSE "unasked",
         write |-> IF disk THEN env.write ELSE FALSE,
         asked |-> (IF dir THEN {"mkdir"} ELSE {}) \cup
                   (IF file THEN {"exists"} ELSE {}) \cup
                   (IF net THEN {"fetch"} ELSE {}) \cup
                   (IF disk THEN {"write"} ELSE {})]

\* the counter _get_articles_in_page increments for a returned (result, msg)
CountedAs(o) ==
    IF o.result
    THEN IF o.msg = "exists" THEN "exists" ELSE "ok"
    ELSE "error"

RECURSIVE MaxOf(_)
MaxOf(S) ==
    LET x == CHOOSE y \in S : TRUE
    IN  IF S = {x} THEN x
        ELSE LET m == MaxOf(S \ {x}) IN IF x > m THEN x ELSE m

\* (mutant) the smallest numeric link taken as the last page
CategoryEnd_First(links) ==
    IF links # {} THEN CHOOSE x \in links : \A y \in links : x <= y ELSE 1

\* _get_category_end: `max(nav) if nav else 1`
CategoryEnd(links) == IF links # {} THEN MaxOf(links) ELSE 1

\* download_from_category(category) is called
StartDownload ==
    /\ dpc = "idle"
    /\ \E valid \in BOOLEAN :
        IF valid
        THEN /\ dpc' = "fetch"
             /\ page' = 1
             /\ dexc' = None
        ELSE /\ dpc' = "raised"                     \* raise ValueError
             /\ dexc' = "ValueError"
             /\ page' = page
    /\ UNCHANGED <<last_page, held, nav, requested, processed, entries_left,
                   art, seen, out, fetches, writes>>
    /\ UNCHANGED <<articles_ok, articles_error, articles_exists>>

\* the tree built from `response` is handed to _get_articles_in_page
HandOver(content) ==
    /\ processed' = Append(processed, content.page)
    /\ entries_left' = content.entries
    /\ dpc' = "entries"
    /\ dexc' = None

LeaveWith(exc) ==
    /\ dpc' = "raised"
    /\ dexc' = exc
    /\ UNCHANGED <<processed, entries_left>>

\* self.r.fetch of listing page `page`, h.fromstring(response), and for page 1
\* _get_category_end; then _get_articles_in_page(tree) begins
FetchListing ==
    /\ dpc = "fetch"
    /\ requested' = Append(requested, page)
    /\ \E answer \in {"page", "empty", "RequestError"} :
        CASE answer = "RequestError" ->
               \* the except branch only logs: `response` keeps what it held
               /\ UNCHANGED <<held, nav, last_page>>
               /\ IF held = Unbound
                  THEN LeaveWith("UnboundLocalError")
                  ELSE HandOver(held)
          [] answer = "empty" ->
               \* fromstring of an empty document raises
               /\ held' = [page |-> page, entries |-> 0]
               /\ UNCHANGED <<nav, last_page>>
               /\ LeaveWith("ParserError")
          [] answer = "page" ->
               \E n \in 0..MaxEntries :
                 /\ held' = [page |-> page, entries |-> n]
                 /\ IF page = 1
                    THEN \E links \in SUBSET (1..MaxPages) :
                           /\ nav' = links
                           /\ last_page' = CategoryEnd(links)
                    ELSE UNCHANGED <<nav, last_page>>
                 /\ HandOver(held')
    /\ UNCHANGED <<page, art, seen, out, fetches, writes>>
    /\ UNCHANGED <<articles_ok, articles_error, articles_exists>>

\* one iteration of `for a in articles` in _get_articles_in_page
ProcessEntry ==
    /\ dpc = "entries"
    /\ entries_left > 0
    /\ \E e \in Entries :
       \E sn \in {Consulted(e, env) : env \in Environments} :
        LET o == DownloadArticle(e, sn) IN
        /\ art' = e
        /\ seen' = sn
        /\ out' = o
        /\ entries_left' = entries_left - 1
        /\ fetches' = (IF o.fetched THEN fetches + 1 ELSE fetches)
        /\ writes' = (IF o.wrote THEN writes + 1 ELSE writes)
        /\ IF o.kind = "raised"
           THEN /\ dpc' = "raised"
                /\ dexc' = o.exc
                /\ UNCHANGED <<articles_ok, articles_error, articles_exists>>
           ELSE /\ UNCHANGED <<dpc, dexc>>
                /\ articles_exists' = (IF CountedAs(o) = "exists"
                                       THEN articles_exists + 1
                                       ELSE articles_exists)
                /\ articles_ok' = (IF CountedAs(o) = "ok"
                                   THEN articles_ok + 1 ELSE articles_ok)
                /\ articles_error' = (IF CountedAs(o) = "error"
                                      THEN articles_error + 1
                                      ELSE articles_error)
    /\ UNCHANGED <<page, last_page, held, nav, requested, processed>>

\* _get_articles_in_page returns; `for page in range(2, last_page + 1)` goes on
\* or ends
FinishPage ==
    /\ dpc = "entries"
    /\ entries_left = 0
    /\ IF page < last_page
       THEN /\ page' = page + 1
            /\ dpc' = "fetch"
       ELSE /\ dpc' = "done"
            /\ page' = page
    /\ UNCHANGED <<last_page, held, nav, requested, processed, entries_left,
                   art, seen, out, fetches, writes, dexc>>
    /\ UNCHANGED <<articles_ok, articles_error, articles_exists>>

\* Praza.__init__, nothing downloaded yet
InitDownload ==
    /\ articles_ok = 0
    /\ articles_error = 0
    /\ articles_exists = 0
    /\ ppc = "idle" /\ visited = 0 /\ nfiles = 0 /\ written = 0
    /\ cur = NoFile /\ doc = NoDoc /\ escaped = None /\ nzero = 0
    /\ IdleDownload
    /\ IdleRelated
    /\ IdleClean
    /\ IdleRerun
    /\ IdleRequest

NextDownload ==
    \/ StartDownload /\ UNCHANGED <<requestVars, parseOnlyVars, relatedVars,
                                  cleanVars, rerunVars>>
    \/ FetchListing /\ UNCHANGED <<requestVars, parseOnlyVars, relatedVars,
                                  cleanVars, rerunVars>>
    \/ ProcessEntry /\ UNCHANGED <<requestVars, parseOnlyVars, relatedVars,
                                  cleanVars, rerunVars>>
    \/ FinishPage /\ UNCHANGED <<requestVars, parseOnlyVars, relatedVars,
                                  cleanVars, rerunVars>>

SpecDownload == InitDownload /\ [][NextDownload]_vars

(***************************************************************************)
(*              NosDiario._get_related  (nosdiario/nosdiario.py)           *)
(***************************************************************************)

\* most anchors directly inside one block in the model
MaxAnchors == 1

\* An anchor of the body: whether a <ul> of its own block is among its
\* ancestors, and whether it carries a non-empty href
Anchors == [in_ul : BOOLEAN, href : BOOLEAN]

AnchorLists == UNION {[1..n -> Anchors] : n \in 0..MaxAnchors}

\* The body markup: one block element, possibly holding one nested block.
\*   tag      the element name ("div" or another one)
\*   related  its class attribute contains 'related-content'
\*   anchors  the anchors directly in it (not in the nested block)
\*   in_ul    (nested block) it sits inside a <ul> of the outer block
\*   inner    the nested blocks: none or one
InnerBlocks ==
    [tag : {"div", "section"}, related : BOOLEAN, in_ul : BOOLEAN,
     anchors : AnchorLists]

Bodies ==
    [kind : {"markup"}, tag : {"div", "section"}, related : BOOLEAN,
     anchors : AnchorLists,
     inner : {<<>>} \cup {<<b>> : b \in InnerBlocks}]

\* //div[contains(@class, 'related-content')] selects the element
IsRelatedDiv(b) == b.tag = "div" /\ b.related

\* the anchors of the list `as` (of block `owner`) that pass: with an href,
\* and inside a <ul> unless the whole block already lies inside one
Extracted(owner, as, wholeBlockInUl) ==
    LET f[i \in 0..Len(as)] ==
            IF i = 0 THEN <<>>
            ELSE IF as[i].href /\ (wholeBlockInUl \/ as[i].in_ul)
                 THEN Append(f[i - 1], [owner |-> owner, index |-> i])
                 ELSE f[i - 1]
    IN  f[Len(as)]

\* div.xpath(".//ul//a") on the outer block reaches into the nested block
FromOuter(b) ==
    Extracted("outer", b.anchors, FALSE) \o
    (IF b.inner = <<>> THEN <<>>
     ELSE Extracted("inner", b.inner[1].anchors, b.inner[1].in_ul))

\* div.xpath(".//ul//a") on the nested block
FromInner(b) ==
    IF b.inner # <<>> /\ IsRelatedDiv(b.inner[1])
    THEN Extracted("inner", b.inner[1].anchors, FALSE)
    ELSE <<>>

\* the list built by the two nested for loops, the matched divs in document
\* order
RelatedOf(b) ==
    (IF IsRelatedDiv(b) THEN FromOuter(b) ELSE <<>>) \o FromInner(b)

\* the markup left after parent.remove(div) for every matched div
RemainingOf(b) ==
    IF IsRelatedDiv(b) THEN [kind |-> "markup", blocks |-> <<>>]
    ELSE [kind |-> "markup",
          blocks |-> <<[b EXCEPT !.inner =
                          IF b.inner # <<>> /\ IsRelatedDiv(b.inner[1])
                          THEN <<>> ELSE b.inner]>>]

\* _get_related(body)
GetRelated ==
    /\ gpc = "call"
    /\ related_uris' = RelatedOf(body)
    /\ body_html' = RemainingOf(body)
    /\ gpc' = "done"
    /\ UNCHANGED body

\* _parse_article hands a body to _get_related
CallGetRelated ==
    /\ gpc = "idle"
    /\ \E b \in Bodies : body' = b
    /\ gpc' = "call"
    /\ UNCHANGED <<related_uris, body_html>>

InitRelated ==
    /\ IdleRelated
    /\ IdleRequest
    /\ IdleParse
    /\ IdleDownload
    /\ IdleClean
    /\ IdleRerun

NextRelated ==
    \/ CallGetRelated /\ UNCHANGED <<requestVars, parseVars, downloadVars,
                                   cleanVars, rerunVars>>
    \/ GetRelated /\ UNCHANGED <<requestVars, parseVars, downloadVars,
                                   cleanVars, rerunVars>>

SpecRelated == InitRelated /\ [][NextRelated]_vars

(***************************************************************************)
(*   clean_html_body  (html_content.py, prazapublica/html_content.py)      *)
(***************************************************************************)

\* longest content in the model, in characters
MaxLen == 2

\* The classes of characters that clean_chars tells apart:
\*   "ctl"  a control character of [\x00-\x08\x0B\x0C\x0E-\x1F\x7F]
\*   "sp"   white space that str.strip() removes (blank, \t, \n, \r)
\*   "ch"   any other character
\*   "bad"  (bytes only) a byte that is no valid UTF-8
StrChars == {"ctl", "sp", "ch"}
ByteChars == StrChars \cup {"bad"}

Contents ==
    [type : {"str"}, chars : UNION {[1..n -> StrChars] : n \in 0..MaxLen}]
    \cup
    [type : {"bytes"}, chars : UNION {[1..n -> ByteChars] : n \in 0..MaxLen}]

\* content.decode("utf-8", errors="replace"): an invalid byte becomes U+FFFD
Decode(c) ==
    IF c.type = "bytes"
    THEN [i \in 1..Len(c.chars) |->
            IF c.chars[i] = "bad" THEN "ch" ELSE c.chars[i]]
    ELSE c.chars

\* str.strip()
Strip(cs) ==
    LET kept == {i \in 1..Len(cs) : cs[i] # "sp"} IN
    IF kept = {} THEN <<>>
    ELSE LET lo == CHOOSE i \in kept : \A j \in kept : i <= j
             hi == CHOOSE i \in kept : \A j \in kept : j <= i
         IN  SubSeq(cs, lo, hi)

\* clean_chars(content): decode, control characters to blanks, strip
clean_chars(c) ==
    LET text == Decode(c) IN
    Strip([i \in 1..Len(text) |-> IF text[i] = "ctl" THEN "sp" ELSE text[i]])

\* What a newspaper call can come back with: an exception of the parser, or
\* a text that is empty, only white space, or has content
StepOutcomes == {"raises", "", " ", "text"}

\* try: ... except Exception: html_cleaned = ""
Caught(o) == IF o = "raises" THEN "" ELSE o

\* newspaper.fulltext(cleaned).strip()
Stripped(o) == IF o = " " THEN "" ELSE o

\* (mutant) the fallback is never entered
NeedsFallback_Never(text) == FALSE

\* `if not html_cleaned:` before the fulltext step
NeedsFallback(text) == text = ""

EmptyContent == [kind |-> "raised", value |-> "Empty content in HTML."]

ExtractionFailed ==
    [kind |-> "raised", value |-> "newspaper failed to clean HTML content."]

\* clean_html_body(html_content) is called
CallClean ==
    /\ cpc = "idle"
    /\ \E c \in Contents : html_content' = c
    /\ cpc' = "call"
    /\ UNCHANGED <<cleaned, html_cleaned, calls, cresult>>

\* cleaned = clean_chars(html_content); if not cleaned: raise RuntimeError
CleanChars ==
    /\ cpc = "call"
    /\ cleaned' = clean_chars(html_content)
    /\ IF cleaned' = <<>>
       THEN cresult' = EmptyContent /\ cpc' = "done"
       ELSE cresult' = cresult /\ cpc' = "article"
    /\ UNCHANGED <<html_content, html_cleaned, calls>>

\* the try block around newspaper.article(...).to_json(...).get('text', '')
ArticleStep ==
    /\ cpc = "article"
    /\ \E o \in StepOutcomes :
        /\ calls' = Append(calls, [step |-> "article", outcome |-> o])
        /\ html_cleaned' = Caught(o)
        /\ cpc' = IF NeedsFallback(Caught(o)) THEN "fulltext" ELSE "end"
    /\ UNCHANGED <<html_content, cleaned, cresult>>

\* the try block around newspaper.fulltext(cleaned).strip()
FulltextStep ==
    /\ cpc = "fulltext"
    /\ \E o \in StepOutcomes :
        /\ calls' = Append(calls, [step |-> "fulltext", outcome |-> o])
        /\ html_cleaned' = Stripped(Caught(o))
    /\ cpc' = "end"
    /\ UNCHANGED <<html_content, cleaned, cresult>>

\* if not html_cleaned: raise RuntimeError(...); return html_cleaned
ReturnCleaned ==
    /\ cpc = "end"
    /\ cresult' = IF html_cleaned = "" THEN ExtractionFailed
                  ELSE [kind |-> "returned", value |-> html_cleaned]
    /\ cpc' = "done"
    /\ UNCHANGED <<html_content, cleaned, html_cleaned, calls>>

InitClean ==
    /\ IdleClean
    /\ IdleRequest
    /\ IdleParse
    /\ IdleDownload
    /\ IdleRelated
    /\ IdleRerun

NextClean ==
    \/ CallClean /\ UNCHANGED <<requestVars, parseVars, downloadVars,
                                relatedVars, rerunVars>>
    \/ CleanChars /\ UNCHANGED <<requestVars, parseVars, downloadVars,
                                 relatedVars, rerunVars>>
    \/ ArticleStep /\ UNCHANGED <<requestVars, parseVars, downloadVars,
                                  relatedVars, rerunVars>>
    \/ FulltextStep /\ UNCHANGED <<requestVars, parseVars, downloadVars,
                                   relatedVars, rerunVars>>
    \/ ReturnCleaned /\ UNCHANGED <<requestVars, parseVars, downloadVars,
                                    relatedVars, rerunVars>>

SpecClean == InitClean /\ [][NextClean]_vars

(***************************************************************************)
(*      Two runs of `run.py --source nosdiario --parse FILE` (run.py)      *)
(***************************************************************************)

\* p.parse([Path(args.parse)]): parse is called with the one file
StartRun ==
    /\ StartParse
    /\ nfiles' = 1

\* the loop iteration; the second run is given the file of the first
RunFile ==
    /\ ParseFile
    /\ run = 2 => cur' = first_file

\* the first process has ended and the program is started again: a new
\* NosDiario object (__init__) in a new interpreter
Restart ==
    /\ run = 1
    /\ ppc \in {"done", "raised"}
    /\ run' = 2
    /\ first_file' = cur
    /\ first_doc' = doc
    /\ articles_ok' = 0 /\ articles_error' = 0 /\ articles_exists' = 0
    /\ ppc' = "idle" /\ visited' = 0 /\ nfiles' = 0 /\ written' = 0
    /\ cur' = NoFile /\ doc' = NoDoc /\ escaped' = None /\ nzero' = 0

InitRerun ==
    /\ IdleParse
    /\ IdleRerun
    /\ IdleRequest
    /\ IdleDownload
    /\ IdleRelated
    /\ IdleClean

NextRerun ==
    \/ StartRun /\ UNCHANGED <<requestVars, downloadVars, relatedVars,
                               cleanVars, rerunVars>>
    \/ RunFile /\ UNCHANGED <<requestVars, downloadVars, relatedVars,
                              cleanVars, rerunVars>>
    \/ FinishParse /\ UNCHANGED <<requestVars, downloadVars, relatedVars,
                                  cleanVars, rerunVars>>
    \/ Restart /\ UNCHANGED <<requestVars, downloadVars, relatedVars,
                              cleanVars>>

SpecRerun == InitRerun /\ [][NextRerun]_vars

(***************************************************************************)
(*                     Properties of Request                               *)
(***************************************************************************)

StatusesOf(as) == [i \in 1..Len(as) |-> as[i].status]

AllExceptions(as) == \A i \in 1..Len(as) : as[i].kind = "exception"

\* the i-th GET was followed by a sleep
SleptAfter(i) == Len(events) >= 2 * i /\ events[2 * i] = "sleep"

NumberOf(ev) == Cardinality({i \in 1..Len(events) : events[i] = ev})

\* C1: with max_retries = 3, fetch on a URL answering 503, 503, 200 goes on
\* after each 503 and returns the body of the third (200) response; on a URL
\* answering 503 three times it ends with RequestError and returns no body.
C1_FetchScenarios ==
    (max_retries = 3 /\ op = "fetch") =>
        /\ (StatusesOf(answers) \in {<<503>>, <<503, 503>>} => rpc = "loop")
        /\ (StatusesOf(answers) = <<503, 503, 200>> /\ rpc = "done" =>
               /\ result.kind = "text"
               /\ result.status = 200
               /\ result.body = 3)
        /\ (StatusesOf(answers) = <<503, 503, 503>> =>
               /\ rpc # "loop"
               /\ rpc = "done" => /\ result.kind = "RequestError"
                                  /\ result.body = 0)

C1_Witness ==
    /\ max_retries = 3 /\ op = "fetch" /\ rpc = "done"
    /\ StatusesOf(answers) = <<503, 503, 200>>
    /\ result.kind = "text"

C1_WitnessExhausted ==
    /\ max_retries = 3 /\ op = "fetch" /\ rpc = "done"
    /\ StatusesOf(answers) = <<503, 503, 503>>
    /\ result.kind = "RequestError"

\* C2: when every attempt ends in a transport failure, exactly max_retries
\* GETs are made with one sleep between consecutive ones, and the call fails
\* with one RequestError whose message class follows the last attempt's
\* exception and which wraps that exception (as its cause, or at least in
\* its message).
C2_TransportFailureWrapsCause ==
    (rpc = "done" /\ Len(answers) >= 1 /\ AllExceptions(answers)) =>
        LET last == answers[Len(answers)].exc IN
        /\ Len(answers) = max_retries
        /\ NumberOf("get") = max_retries
        /\ NumberOf("sleep") = max_retries - 1
        /\ \A i \in 1..(max_retries - 1) : SleptAfter(i)
        /\ result.kind = "RequestError"
        /\ result.msg = (IF last \in {"ReadTimeout", "ConnectTimeout"}
                         THEN "Timeout occurred"
                         ELSE IF last = "ConnectionError"
                         THEN "Connection error occurred"
                         ELSE "Error fetching URL: <last_exc>")
        /\ (result.cause = last \/ result.detail = last)

\* the part of C2 that does not speak of the cause
C2_TransportFailureCounts ==
    (rpc = "done" /\ Len(answers) >= 1 /\ AllExceptions(answers)) =>
        LET last == answers[Len(answers)].exc IN
        /\ Len(answers) = max_retries
        /\ NumberOf("get") = max_retries
        /\ NumberOf("sleep") = max_retries - 1
        /\ \A i \in 1..(max_retries - 1) : SleptAfter(i)
        /\ result.kind = "RequestError"
        /\ result.msg = (IF last \in {"ReadTimeout", "ConnectTimeout"}
                         THEN "Timeout occurred"
                         ELSE IF last = "ConnectionError"
                         THEN "Connection error occurred"
                         ELSE "Error fetching URL: <last_exc>")

\* C3: a response is retried, after one sleep, exactly when its status is one
\* of 500, 502, 503, 504, 429 and its attempt number is below max_retries;
\* any other response is returned at once with no further request; and a
\* retryable status on the last allowed attempt is returned by fetch_response
\* as it is, with no error raised.
C3_RetryIffRetryableAndAttemptsLeft ==
    /\ \A i \in 1..Len(answers) :
          answers[i].kind = "response" =>
              IF answers[i].status \in {500, 502, 503, 504, 429} /\ i < max_retries
              THEN /\ SleptAfter(i)
                   /\ response.from # i
                   /\ rpc = "loop" \/ Len(answers) > i
              ELSE /\ ~SleptAfter(i)
                   /\ Len(answers) = i
                   /\ Len(events) = 2 * i - 1
                   /\ response = [status |-> answers[i].status, from |-> i]
                   /\ rpc \in {"returned", "done"}
    /\ (op = "fetch_response" /\ rpc = "done" /\ response.from # 0) =>
          /\ result.kind = "response"
          /\ result.status = response.status
          /\ result.body = response.from

C3_Witness ==
    /\ op = "fetch_response" /\ rpc = "done"
    /\ max_retries >= 2
    /\ response.from = max_retries
    /\ response.status \in {500, 502, 503, 504, 429}
    /\ result.kind = "response"

\* C4: fetch returns the body text exactly when the final response of the
\* retry loop has a non-error status; when it has a 4xx or 5xx status fetch
\* raises RequestError carrying that status and returns no body.
C4_FetchTextIffNoHTTPError ==
    (op = "fetch" /\ rpc = "done") =>
        LET gotResponse == response.from # 0
            isError == response.status >= 400 /\ response.status <= 599
        IN  /\ result.kind = "text" <=> (gotResponse /\ ~isError)
            /\ result.kind = "text" =>
                  /\ result.body = response.from
                  /\ result.status = answers[response.from].status
            /\ (gotResponse /\ isError) =>
                  /\ result.kind = "RequestError"
                  /\ result.msg = "HTTP <status> error in <url>"
                  /\ result.status = response.status
                  /\ result.body = 0

C4_Witness ==
    /\ op = "fetch" /\ rpc = "done"
    /\ Len(answers) >= 2
    /\ response.from = Len(answers)
    /\ response.status = 404
    /\ result.kind = "RequestError" /\ result.status = 404

\* C16: for max_retries >= 1, whatever the attempts meet, the retry loop makes
\* at most max_retries GETs and at most max_retries - 1 sleeps, never sleeps
\* after its final attempt, never gets stuck before its end, and ends by
\* returning a response or raising a classified RequestError: the
\* 'Unknown error fetching URL' outcome does not occur.
C16_BoundedAttemptsClassifiedEnd ==
    max_retries >= 1 =>
        /\ NumberOf("get") <= max_retries
        /\ NumberOf("sleep") <= max_retries - 1
        /\ NumberOf("get") = Len(answers)
        /\ rpc = "loop" => /\ attempt <= max_retries
                           /\ NumberOf("get") = attempt - 1
        /\ rpc \in {"returned", "after_loop", "done"} =>
              /\ Len(events) >= 1
              /\ events[Len(events)] = "get"
        /\ rpc = "after_loop" => last_exc \in {"ReadTimeout", "ConnectTimeout",
                                               "ConnectionError",
                                               "TooManyRedirects"}
        /\ rpc = "done" =>
              \/ result.kind \in {"response", "text"} /\ response.from # 0
              \/ /\ result.kind = "RequestError"
                 /\ result.msg \in {"Timeout occurred",
                                    "Connection error occurred",
                                    "Error fetching URL: <last_exc>",
                                    "HTTP <status> error in <url>"}
        /\ rpc = "done" \/ ENABLED NextRequest

C16_Witness ==
    /\ max_retries >= 2
    /\ rpc = "done"
    /\ NumberOf("get") = max_retries
    /\ NumberOf("sleep") = max_retries - 1
    /\ answers[1].kind = "exception"
    /\ answers[max_retries].kind = "response"
    /\ answers[max_retries].status = 503

(***************************************************************************)
(*                     Properties of NosDiario.parse                       *)
(***************************************************************************)

\* the step is one loop iteration of parse()
TakesFile == visited' = visited + 1

CountersUnchanged ==
    /\ articles_ok' = articles_ok
    /\ articles_error' = articles_error
    /\ articles_exists' = articles_exists

\* C5: for a well-formed, non-empty XML file without any Tesauro Property,
\* parse writes no document and adds exactly one to articles_error, whatever
\* else the file holds.
C5_NoCategoryIsCountedError ==
    [][(TakesFile /\ cur'.kind = "xml" /\ cur'.tesauro = {}) =>
          /\ written' = written
          /\ doc' = NoDoc
          /\ articles_error' = articles_error + 1
          /\ articles_ok' = articles_ok
          /\ articles_exists' = articles_exists
          /\ ppc' = "loop"]_vars

C5_Witness ==
    /\ cur.kind = "xml"
    /\ cur.tesauro = {}
    /\ cur.body_content = None
    /\ cur.date_id = None
    /\ cur.keywords = "no_key"
    /\ visited = 2
    /\ articles_ok = 1
    /\ articles_error = 1
    /\ written = 1

\* C6: on a zero-byte file parse writes no document, leaves articles_ok,
\* articles_error and articles_exists as they are, and stays in the loop for
\* the next file.
C6_EmptyFileSkippedUncounted ==
    [][(TakesFile /\ cur'.kind = "zero_bytes") =>
          /\ written' = written
          /\ doc' = NoDoc
          /\ CountersUnchanged
          /\ ppc' = "loop"
          /\ escaped' = None]_vars

C6_Witness ==
    /\ cur.kind = "zero_bytes"
    /\ visited = 2
    /\ articles_error = 1
    /\ articles_ok = 0
    /\ written = 0
    /\ ppc = "done"

\* C7: on a non-empty file that is not well-formed XML parse writes no
\* document, adds one to articles_error, and no exception leaves the
\* iteration.
C7_SyntaxErrorIsCounted ==
    [][(TakesFile /\ cur'.kind = "malformed") =>
          /\ written' = written
          /\ articles_error' = articles_error + 1
          /\ ppc' = "loop"
          /\ escaped' = None]_vars

\* C8: for a well-formed file with at least one Tesauro category and a
\* non-empty body or a non-empty abstract, parse writes one document, adds one
\* to articles_ok, and the document's news_item_id is the one the file holds
\* (hence the same on every run over that file).
C8_CategoryAndTextGiveDocument ==
    [][(/\ TakesFile
        /\ cur'.kind = "xml"
        /\ cur'.tesauro # {}
        /\ (cur'.body_content = "text" \/ cur'.abstract = "text")) =>
          /\ written' = written + 1
          /\ articles_ok' = articles_ok + 1
          /\ doc'.kind = "document"
          /\ doc'.metadata.news_item_id = cur'.news_item_id]_vars

\* C9: parse visits every file of the sequence: no exception leaves parse and
\* the loop ends only after the last file.
C9_EveryFileVisited ==
    /\ ppc # "raised"
    /\ escaped = None
    /\ ppc = "done" => visited = nfiles

\* C17: after any sequence of files, articles_ok is the number of documents
\* written, and every file taken is accounted for exactly once: written
\* (articles_ok), counted as error (articles_error) or zero-length.
C17_CountersAccountForFiles ==
    /\ articles_ok = written
    /\ articles_ok + articles_error + nzero = visited

(***************************************************************************)
(*                       Properties of Praza.parse                         *)
(***************************************************************************)

\* C10: for an HTML page without an 'article-body' element, or whose text
\* reduction fails, Praza.parse writes no document and adds one to
\* articles_error, whatever metadata, title, abstract or images it carries.
C10_NoBodyIsCountedError ==
    [][(/\ TakesFile
        /\ cur'.kind = "html"
        /\ (~cur'.article_body \/ cur'.bodytext = "fails")) =>
          /\ written' = written
          /\ articles_error' = articles_error + 1
          /\ articles_ok' = articles_ok]_vars

(***************************************************************************)
(*               Properties of Praza.download_from_category                *)
(***************************************************************************)

\* the step is one iteration of the article loop of _get_articles_in_page
TakesEntry == dpc = "entries" /\ entries_left' = entries_left - 1

\* C11: when the article's file already exists in its year/month directory,
\* _download_article returns (True, 'exists') without a fetch and without
\* writing the file, and _get_articles_in_page increments articles_exists
\* only.
C11_ExistingFileSkipsFetch ==
    [][(TakesEntry /\ "exists" \in seen'.asked /\ seen'.exists) =>
          /\ out'.kind = "returned"
          /\ out'.result = TRUE
          /\ out'.msg = "exists"
          /\ fetches' = fetches
          /\ writes' = writes
          /\ articles_exists' = articles_exists + 1
          /\ articles_ok' = articles_ok
          /\ articles_error' = articles_error]_vars

C11_Witness ==
    /\ seen.kind = "seen"
    /\ seen.exists
    /\ out.msg = "exists"
    /\ articles_exists = 1
    /\ articles_ok = 1
    /\ fetches = 1
    /\ writes = 1

\* an entry whose handling fails: no headline link, no publish date, the
\* directory cannot be made, the fetch fails or is empty, the write fails
EntryFails(e, sn) ==
    \/ ~e.href
    \/ e.date = None
    \/ "mkdir" \in sn.asked /\ ~sn.mkdir
    \/ "fetch" \in sn.asked /\ sn.fetch \in {"RequestError", "empty"}
    \/ "write" \in sn.asked /\ ~sn.write

\* C12: a failure while handling one article entry is counted in
\* articles_error and does not abort the loop: the entries and listing pages
\* after it are still processed.
C12_EntryFailureCountedLoopGoesOn ==
    [][(TakesEntry /\ EntryFails(art', seen')) =>
          /\ articles_error' = articles_error + 1
          /\ articles_ok' = articles_ok
          /\ articles_exists' = articles_exists
          /\ dpc' = "entries"
          /\ dexc' = None]_vars

\* C13: for a valid category the listing pages requested are 1, 2, ..., L in
\* this order, each once, L being the largest numeric pagination link of page
\* 1, or 1 when there is none.
C13_RequestsPagesOneToLast ==
    (dpc \in {"done", "raised"} /\ dexc # "ValueError") =>
        LET L == IF nav = {} THEN 1
                 ELSE CHOOSE x \in nav : \A y \in nav : y <= x
        IN  requested = [i \in 1..L |-> i]

\* the part of C13 that holds: the requests made are always the first page
\* numbers, ascending and each once, and none is above L
C13_RequestedIsPrefix ==
    LET L == IF nav = {} THEN 1
             ELSE CHOOSE x \in nav : \A y \in nav : y <= x
    IN  /\ Len(requested) <= L
        /\ \A i \in 1..Len(requested) : requested[i] = i

\* C18: a failed fetch of a listing page neither aborts the run nor has
\* articles processed on its behalf: no error leaves download_from_category
\* after a failed fetch of page 1, and no listing page has its entries
\* processed twice.
C18_FailedListingFetchIsSkipped ==
    /\ dexc # "UnboundLocalError"
    /\ \A i, j \in 1..Len(processed) : i # j => processed[i] # processed[j]

\* the second half of C18 alone
C18_NoPageProcessedTwice ==
    \A i, j \in 1..Len(processed) : i # j => processed[i] # processed[j]

(***************************************************************************)
(*                  Properties of NosDiario._get_related                   *)
(***************************************************************************)

\* the elements of a returned markup that carry the related-content class
RelatedElementsLeft(m) ==
    {i \in 1..Len(m.blocks) : m.blocks[i].related} \cup
    {i \in 1..Len(m.blocks) :
        m.blocks[i].inner # <<>> /\ m.blocks[i].inner[1].related}

\* the anchors lying inside a matched related-content block, each one once
AnchorsInMatchedBlocks(b) ==
    {[owner |-> "outer", index |-> i] : i \in
        {k \in 1..Len(b.anchors) : IsRelatedDiv(b)}} \cup
    (IF b.inner = <<>> THEN {}
     ELSE {[owner |-> "inner", index |-> i] : i \in
             {k \in 1..Len(b.inner[1].anchors) :
                 IsRelatedDiv(b) \/ IsRelatedDiv(b.inner[1])}})

\* C14: the body_html returned by _get_related holds no element with the
\* related-content class, and the related list has one entry for each anchor
\* inside the matched blocks.
C14_RelatedRemovedAndCounted ==
    gpc = "done" =>
        /\ RelatedElementsLeft(body_html) = {}
        /\ Len(related_uris) = Cardinality(AnchorsInMatchedBlocks(body))

\* the nested-block case of C14 alone: with every anchor inside a <ul> and
\* carrying an href, and only div elements, the list has one entry per anchor
C14_NestedAnchorsCountedOnce ==
    (/\ gpc = "done"
     /\ body.tag = "div"
     /\ \A i \in 1..Len(body.anchors) :
           body.anchors[i].in_ul /\ body.anchors[i].href
     /\ \A j \in 1..Len(body.inner) :
           /\ body.inner[j].tag = "div"
           /\ \A i \in 1..Len(body.inner[j].anchors) :
                 body.inner[j].anchors[i].in_ul /\ body.inner[j].anchors[i].href) =>
        Len(related_uris) = Cardinality(AnchorsInMatchedBlocks(body))

(***************************************************************************)
(*                 Properties of the written documents                     *)
(***************************************************************************)

\* C20: every document NosDiario.parse writes carries a non-null
\* metadata.news_item_id (a file without the NewsItemId element gets no
\* document).
C20_WrittenDocumentHasNewsItemId ==
    doc.kind = "document" => doc.metadata.news_item_id # None

\* the Praza half of C20: every document Praza.parse writes has the
\* news_item_id key in its metadata (a page without og:url gets no document)
C20_PrazaDocumentHasNewsItemId ==
    doc.kind = "document" => "news_item_id" \in doc.metadata.keys

(***************************************************************************)
(*                     Properties of clean_html_body                       *)
(***************************************************************************)

\* the text a finished step left in html_cleaned
TextOfCall(c) ==
    IF c.outcome = "raises" THEN ""
    ELSE IF c.step = "fulltext" /\ c.outcome = " " THEN ""
    ELSE c.outcome

\* nothing but control characters and white space in the content
OnlyBlank(c) == \A i \in 1..Len(c.chars) : c.chars[i] \in {"ctl", "sp"}

\* C15: clean_html_body follows the fallback chain. Empty sanitized input
\* raises the empty-content error with no extraction attempted; otherwise
\* the article extraction runs first and its non-empty text is returned
\* with nothing else tried; otherwise (empty text or an exception) the
\* fulltext extraction runs second and its non-empty text is returned;
\* otherwise the extraction-failed error is raised. Nothing else is ever
\* raised and "" is never returned.
C15_FallbackChain ==
    cpc = "done" =>
        /\ cresult \in {EmptyContent, ExtractionFailed} \cup
                       [kind : {"returned"}, value : {" ", "text"}]
        /\ OnlyBlank(html_content) =>
               cresult = EmptyContent /\ calls = <<>>
        /\ ~OnlyBlank(html_content) =>
            /\ Len(calls) >= 1
            /\ calls[1].step = "article"
            /\ IF TextOfCall(calls[1]) # ""
               THEN /\ Len(calls) = 1
                    /\ cresult = [kind |-> "returned",
                                  value |-> TextOfCall(calls[1])]
               ELSE /\ Len(calls) = 2
                    /\ calls[2].step = "fulltext"
                    /\ cresult = IF TextOfCall(calls[2]) # ""
                                 THEN [kind |-> "returned",
                                       value |-> TextOfCall(calls[2])]
                                 ELSE ExtractionFailed

\* the article extraction raised on content that was bytes with an invalid
\* byte and a control character, and the fulltext extraction gave the text
C15_Witness ==
    /\ cpc = "done"
    /\ html_content.type = "bytes"
    /\ \E i \in 1..Len(html_content.chars) : html_content.chars[i] = "bad"
    /\ Len(calls) = 2
    /\ calls[1].outcome = "raises"
    /\ cresult = [kind |-> "returned", value |-> "text"]

\* both extractions raised and the extraction-failed error came out
C15_WitnessBothRaise ==
    /\ cpc = "done"
    /\ Len(calls) = 2
    /\ calls[1].outcome = "raises" /\ calls[2].outcome = "raises"
    /\ cresult = ExtractionFailed

\* content of control characters and white space only: the empty-content
\* error with no extraction
C15_WitnessEmpty ==
    /\ cpc = "done"
    /\ \E i \in 1..Len(html_content.chars) : html_content.chars[i] = "ctl"
    /\ cresult = EmptyContent
    /\ calls = <<>>

(***************************************************************************)
(*                 Properties of two runs on one file                      *)
(***************************************************************************)

\* C19: a second run of NosDiario.parse on the same file writes the document
\* the first run wrote, with the categories in the same order and the same
\* first category in metadata.url.
C19_SecondRunWritesSameDocument ==
    (run = 2 /\ ppc = "done") => doc = first_doc

\* the part of the document that does not depend on the order of the
\* categories is the same in both runs
C19_SameUpToCategoryOrder ==
    (run = 2 /\ ppc = "done" /\ first_doc.kind = "document") =>
        /\ doc.kind = "document"
        /\ doc.metadata.news_item_id = first_doc.metadata.news_item_id
        /\ {doc.news.categories[i] : i \in 1..Len(doc.news.categories)} =
           {first_doc.news.categories[i] :
               i \in 1..Len(first_doc.news.categories)}

=============================================================================
